---- MODULE Spec2Model ----
(***************************************************************************)
(* Verification Ledger of indieshots: the in-memory one-time-code store    *)
(* and the three express handlers registerWithOTP, verifyOTP and resendOTP *)
(* that work on it.                                                        *)
(*                                                                         *)
(* Node runs the handlers on one thread: a handler runs without            *)
(* interruption up to its next `await`, where any other handler or timer   *)
(* callback may run.  Each action below is one such uninterrupted stretch. *)
(* Consecutive awaits with no access to shared state between them are one  *)
(* stretch boundary.  Time is in milliseconds, as Date.now() is.           *)
(*                                                                         *)
(* Strings the code transforms (emails, codes) are sequences of one-       *)
(* character strings, so that toLowerCase and toString are computed.       *)
(*                                                                         *)
(* Session Reconciler of indieshots: the AuthManager singleton of the      *)
(* browser client, with the Firebase auth session, its notification        *)
(* stream, localStorage and the page's timers.  It runs on the browser's   *)
(* one thread under the same rule: one action per uninterrupted stretch.   *)
(* The two components share nothing but the clock, so each is explored     *)
(* by a specification of its own, which holds the other one still.         *)
(***************************************************************************)
EXTENDS Integers, Sequences, FiniteSets, Bags, TLC

-----------------------------------------------------------------------------
(* Bounds of the model *)

\* request handlers that can be in flight at once
NumProcs == 2
\* storeOTP calls in one behaviour
MaxIssues == 2
\* clock steps in one behaviour
MaxTicks == 2
\* clock steps per code lifetime (the clock's granularity)
TicksPerTtl == 1
\* calls the user makes on the AuthManager and the page in one behaviour
MaxUserOps == 3
\* how long after logout() the clock is read again, in ms: one second
SECOND_MS == 1000
\* callbacks registered with onAuthStateChange at once
MaxListeners == 1

-----------------------------------------------------------------------------
(* Program constants *)

\* storeOTP: Date.now() + (5 * 60 * 1000)
OTP_TTL_MS == 5 * 60 * 1000
\* storeOTP: setTimeout(..., 10 * 60 * 1000)
CLEANUP_DELAY_MS == 10 * 60 * 1000
\* verifyOTP: stored.attempts >= 5, 5 - stored.attempts
MAX_ATTEMPTS == 5
\* generateOTP: crypto.randomInt(100000, 999999)
OTP_MIN == 100000
OTP_MAX == 999999
\* registerSchema: password min(8)
MIN_PASSWORD_LEN == 8

TickMs == OTP_TTL_MS \div TicksPerTtl

\* initialize: (currentTime - parseInt(logoutTime)) < 120000
LOCK_TTL_MS == 120000
\* logout: setTimeout(..., 100)
RELOAD_DELAY_MS == 100
\* scheduleAutomaticTierValidation: setTimeout(..., 2000)
TIER_VALIDATION_DELAY_MS == 2000

-----------------------------------------------------------------------------
(* Strings *)

LowerChar(c) ==
    CASE c = "A" -> "a"
      [] c = "B" -> "b"
      [] c = "C" -> "c"
      [] c = "X" -> "x"
      [] OTHER -> c

\* String.prototype.toLowerCase
toLowerCase(s) == [i \in DOMAIN s |-> LowerChar(s[i])]

DigitChar(d) ==
    CASE d = 0 -> "0" [] d = 1 -> "1" [] d = 2 -> "2" [] d = 3 -> "3"
      [] d = 4 -> "4" [] d = 5 -> "5" [] d = 6 -> "6" [] d = 7 -> "7"
      [] d = 8 -> "8" [] d = 9 -> "9"

RECURSIVE toString(_)
\* Number.prototype.toString for a non-negative integer
toString(n) ==
    IF n < 10 THEN <<DigitChar(n)>>
    ELSE Append(toString(n \div 10), DigitChar(n % 10))

\* JavaScript truthiness of a string: the empty string is falsy
Truthy(s) == Len(s) > 0

-----------------------------------------------------------------------------
(* Inputs *)

\* request bodies' email fields: two spellings of one address, a malformed
\* one and a missing one
Emails ==
    { <<"a", "@", "x", ".", "c", "o">>,
      <<"A", "@", "X", ".", "c", "o">>,
      <<"a", "x">>,
      <<>> }

\* request bodies' password fields
Passwords == { "hunter2", "correct-horse" }

\* request bodies' couponCode fields; NoCoupon is the field left out
NoCoupon == <<>>
Coupons == { NoCoupon, <<"P", "R", "O">> }

\* the integers crypto.randomInt is sampled at: both ends of the interval
\* and the values next to them
SampleInts == { OTP_MIN, OTP_MAX - 1, OTP_MAX }

\* generateOTP: crypto.randomInt(min, max) draws from min <= n < max
generateOTP == { toString(n) : n \in { m \in SampleInts : OTP_MIN <= m /\ m < OTP_MAX } }

\* request bodies' otp fields: every sampled code, and a missing one
SubmittedOtps == { toString(n) : n \in SampleInts } \cup { <<>> }

\* zod's z.string().email(): one "@" with a local part before it and a
\* dotted domain after it
IsEmail(s) ==
    \E i \in DOMAIN s :
        /\ s[i] = "@"
        /\ i > 1
        /\ \A j \in DOMAIN s : s[j] = "@" => j = i
        /\ \E d \in DOMAIN s : d > i + 1 /\ d < Len(s) /\ s[d] = "."

\* registerSchema.parse: the first violated rule's message, or "" when the
\* body is valid
registerSchemaError(email, password) ==
    IF ~IsEmail(email) THEN "Invalid email address"
    ELSE IF Len(password) < MIN_PASSWORD_LEN THEN "Password must be at least 8 characters"
    ELSE ""

-----------------------------------------------------------------------------
(* State *)

VARIABLES
    now,        \* Date.now()
    otpStore,   \* the Map: a function whose domain is the keys present
    timers,     \* pending setTimeout callbacks of storeOTP
    users,      \* storage's accounts by email: domain is the emails registered
    calls,      \* the handler invocations waiting at an await: a bag of their
                \* positions and locals
    resp,       \* the response the last step sent, NoResponse when it sent none
    issueSeq,   \* history: storeOTP calls so far
    meta,       \* history, per key present: the record's issue number, its
                \* creation time, the mismatches compared against its code
    confirmed,  \* history, per email: the code of the confirmation that succeeded
    validation  \* history: what the promo lookup of the last step did,
                \* "none" when the step made no lookup

vars == <<now, otpStore, timers, users, calls, resp, issueSeq, meta, confirmed,
          validation>>

NoResponse == [op |-> "none"]

\* new Map()
EmptyMap == [x \in {} |-> x]

\* Map.prototype.has / set / delete
MapHas(m, k) == k \in DOMAIN m
MapSet(m, k, v) == [x \in DOMAIN m \cup {k} |-> IF x = k THEN v ELSE m[x]]
MapDelete(m, k) == [x \in DOMAIN m \ {k} |-> m[x]]

\* the ledger after the module is loaded
LedgerInit ==
    /\ otpStore = EmptyMap
    /\ timers = {}
    /\ users = EmptyMap
    /\ calls = EmptyBag
    /\ resp = NoResponse
    /\ issueSeq = 0
    /\ meta = EmptyMap
    /\ confirmed = EmptyMap
    /\ validation = "none"

\* the step sends no response
Silent == resp' = NoResponse

\* the step makes no promo lookup
NoValidation == validation' = "none"

\* res.status(status).json(body) of handler op
Respond(op, status, body) ==
    resp' = [op |-> op, status |-> status, body |-> body]

\* a handler invocation reaches its first await with locals c
Await(c) ==
    /\ BagCardinality(calls) < NumProcs
    /\ calls' = calls (+) SetToBag({c})

\* the waiting invocation c goes on to its next await with locals d
Resume(c, d) == calls' = (calls (-) SetToBag({c})) (+) SetToBag({d})

\* the waiting invocation c returns
Return(c) == calls' = calls (-) SetToBag({c})

Waiting == BagToSet(calls)

\* otpStore.delete(key), with the history kept for the key
DeleteOTP(key) ==
    /\ otpStore' = MapDelete(otpStore, key)
    /\ meta' = MapDelete(meta, key)

-----------------------------------------------------------------------------
(* storeOTP *)

\* the record storeOTP puts in the Map at time t
NewRecord(otp, userData, t) ==
    [otp |-> otp, expires |-> t + OTP_TTL_MS, userData |-> userData, attempts |-> 0]

\* the setTimeout storeOTP arms at time t: its callback deletes `key`
NewTimer(id, email, t) ==
    [id |-> id, key |-> toLowerCase(email), at |-> t + CLEANUP_DELAY_MS]

storeOTP(email, otp, userData) ==
    /\ otpStore' = MapSet(otpStore, toLowerCase(email), NewRecord(otp, userData, now))
    /\ timers' = timers \cup { NewTimer(issueSeq + 1, email, now) }
    /\ issueSeq' = issueSeq + 1
    /\ meta' = MapSet(meta, toLowerCase(email),
                      [id |-> issueSeq + 1, createdAt |-> now, mismatches |-> 0])

\* the setTimeout callback of storeOTP: otpStore.delete(email.toLowerCase())
TimerFire(t) ==
    /\ t \in timers
    /\ t.at <= now
    /\ DeleteOTP(t.key)
    /\ timers' = timers \ {t}
    /\ Silent
    /\ UNCHANGED <<now, users, calls, issueSeq, confirmed>>

\* time passes; a timer that is due runs before the clock moves on
Tick ==
    /\ now < MaxTicks * TickMs
    /\ \A t \in timers : t.at > now
    /\ now' = now + TickMs
    /\ Silent
    /\ UNCHANGED <<otpStore, timers, users, calls, issueSeq, meta, confirmed>>

-----------------------------------------------------------------------------
(* registerWithOTP *)

\* bcrypt.hash(password, salt)
Hash(password) == <<"bcrypt", password>>

\* what promoService.validatePromoCode can do for a coupon; the lookup is
\* skipped when the coupon is missing or empty
PromoOutcomes(couponCode) ==
    IF Truthy(couponCode) THEN {"valid", "invalid", "throws"} ELSE {"skipped"}

\* the upgrade given for any code that was looked up, whatever the answer
TierFieldsForAnyCode(outcome) ==
    IF outcome # "skipped"
    THEN [tier |-> "pro", totalPages |-> -1, maxShotsPerScene |-> -1,
          canGenerateStoryboards |-> TRUE]
    ELSE [tier |-> "free", totalPages |-> 10, maxShotsPerScene |-> 5,
          canGenerateStoryboards |-> FALSE]

\* the tier fields registerWithOTP ends with
TierFields(outcome) ==
    IF outcome = "valid"
    THEN [tier |-> "pro", totalPages |-> -1, maxShotsPerScene |-> -1,
          canGenerateStoryboards |-> TRUE]
    ELSE [tier |-> "free", totalPages |-> 10, maxShotsPerScene |-> 5,
          canGenerateStoryboards |-> FALSE]

\* the userData registerWithOTP prepares
UserData(body, outcome) ==
    [email |-> toLowerCase(body.email),
     firstName |-> "",
     lastName |-> "",
     password |-> Hash(body.password),
     provider |-> "local",
     tier |-> TierFields(outcome).tier,
     totalPages |-> TierFields(outcome).totalPages,
     maxShotsPerScene |-> TierFields(outcome).maxShotsPerScene,
     canGenerateStoryboards |-> TierFields(outcome).canGenerateStoryboards,
     usedPages |-> 0,
     couponCode |-> body.couponCode]

\* the registration bodies with a coupon among `coupons`
RegisterBodiesWith(coupons) == [email : Emails, password : Passwords, couponCode : coupons]

\* the registration bodies that leave the coupon out
RegisterBodies == RegisterBodiesWith({NoCoupon})

\* handler invocations that will still call storeOTP
Registering ==
    LET R == { c \in Waiting : c.pc \in {"getUserByEmail", "prepare"} }
    IN  BagCardinality([c \in R |-> calls[c]])

\* registerSchema.parse(req.body), then the call of storage.getUserByEmail
RegisterStart(body) ==
    /\ issueSeq + Registering < MaxIssues
    /\ IF registerSchemaError(body.email, body.password) # ""
       THEN /\ Respond("registerWithOTP", 400,
                       [message |-> registerSchemaError(body.email, body.password)])
            /\ UNCHANGED calls
       ELSE /\ Await([pc |-> "getUserByEmail", body |-> body])
            /\ Silent
    /\ UNCHANGED <<now, otpStore, timers, users, issueSeq, meta, confirmed>>

\* the lookup without the normalisation
LookupEmailAsTyped(body) == body.email

\* the argument of storage.getUserByEmail: validatedData.email.toLowerCase()
LookupEmail(body) == toLowerCase(body.email)

\* storage.getUserByEmail resolves: `if (existingUser)`
RegisterLookup(c) ==
    /\ c \in Waiting
    /\ c.pc = "getUserByEmail"
    /\ IF MapHas(users, LookupEmail(c.body))
       THEN /\ Respond("registerWithOTP", 400, [message |-> "Email already registered"])
            /\ Return(c)
       ELSE /\ Resume(c, [c EXCEPT !.pc = "prepare"])
            /\ Silent
    /\ UNCHANGED <<now, otpStore, timers, users, issueSeq, meta, confirmed>>

\* the 200 body telling the code along with the email
IssuedBodyWithCode(userData, otp) ==
    [message |-> "Verification code sent! Check the server console for your OTP.",
     email |-> userData.email,
     otp |-> otp,
     requiresVerification |-> TRUE,
     devNote |-> "For development: Check server console for OTP code"]

\* the 200 body of registerWithOTP after it stored `otp` for userData.email
IssuedBody(userData, otp) ==
    [message |-> "Verification code sent! Check the server console for your OTP.",
     email |-> userData.email,
     requiresVerification |-> TRUE,
     devNote |-> "For development: Check server console for OTP code"]

\* bcrypt and the promo lookup resolve; generateOTP, storeOTP, the 200
RegisterStore(c) ==
    /\ c \in Waiting
    /\ c.pc = "prepare"
    /\ \E outcome \in PromoOutcomes(c.body.couponCode), otp \in generateOTP :
        LET userData == UserData(c.body, outcome) IN
        /\ validation' = outcome
        /\ storeOTP(userData.email, otp, userData)
        /\ Respond("registerWithOTP", 200, IssuedBody(userData, otp))
    /\ Return(c)
    /\ UNCHANGED <<now, users, confirmed>>

\* storage.getUserByEmail or bcrypt rejects: the catch block's 500
RegisterFail(c) ==
    /\ c \in Waiting
    /\ c.pc \in {"getUserByEmail", "prepare"}
    /\ Respond("registerWithOTP", 500, [message |-> "Registration failed"])
    /\ Return(c)
    /\ UNCHANGED <<now, otpStore, timers, users, issueSeq, meta, confirmed>>

-----------------------------------------------------------------------------
(* verifyOTP *)

\* the expiry check taking the last valid instant for expired
IsExpiredAtDeadline(stored, t) == t >= stored.expires

\* `Date.now() > stored.expires`
IsExpired(stored, t) == t > stored.expires

\* the attempts check letting one more attempt through
TooManyAttemptsOffByOne(stored) == stored.attempts > MAX_ATTEMPTS

\* `stored.attempts >= 5`
TooManyAttempts(stored) == stored.attempts >= MAX_ATTEMPTS

\* `stored.otp !== otp`
OtpMismatch(stored, otp) == stored.otp # otp

\* `stored.attempts++`
IncrementAttempts(stored) == [stored EXCEPT !.attempts = stored.attempts + 1]

\* the attempts left computed from the count before the increment
attemptsLeftBeforeIncrement(stored) == MAX_ATTEMPTS - (stored.attempts - 1)

\* `attemptsLeft: 5 - stored.attempts`
attemptsLeft(stored) == MAX_ATTEMPTS - stored.attempts

\* what storage.createUser can do for an email: it rejects an email that is
\* registered already, and may fail for reasons of its own
createUserOutcomes(email) ==
    IF MapHas(users, email) THEN {"throws"} ELSE {"created", "throws"}

\* the user storage.createUser resolves to
CreatedUser(userData) ==
    [f \in DOMAIN userData \cup {"id", "verificationToken"} |->
        IF f = "id" THEN <<"user", userData.email>>
        ELSE IF f = "verificationToken" THEN "null"
        ELSE userData[f]]

\* `const { password, ...userResponse } = user`
userResponse(user) == [f \in DOMAIN user \ {"password"} |-> user[f]]

\* generateToken(user.id)
generateToken(id) == <<"jwt", id>>

VerifyBodies == [email : Emails, otp : SubmittedOtps]

\* the expiry branch: otpStore.delete and the 400
VerifyExpired(key) ==
    /\ DeleteOTP(key)
    /\ Respond("verifyOTP", 400, [message |-> "OTP has expired. Please register again."])

\* the attempts branch answering without the delete
VerifyTooManyKeepsRecord(key) ==
    /\ Respond("verifyOTP", 400,
               [message |-> "Too many failed attempts. Please register again."])
    /\ UNCHANGED <<otpStore, meta>>

\* the attempts branch: otpStore.delete and the 400
VerifyTooMany(key) ==
    /\ DeleteOTP(key)
    /\ Respond("verifyOTP", 400,
               [message |-> "Too many failed attempts. Please register again."])

\* the mismatch branch: stored.attempts++ and the 400 with attemptsLeft
VerifyMismatch(key) ==
    /\ otpStore' = [otpStore EXCEPT ![key] = IncrementAttempts(otpStore[key])]
    /\ meta' = [meta EXCEPT ![key].mismatches = meta[key].mismatches + 1]
    /\ Respond("verifyOTP", 400,
               [message |-> "Invalid OTP code",
                attemptsLeft |-> attemptsLeft(IncrementAttempts(otpStore[key]))])

\* verifyOTP up to its await: the checks, and the call of storage.createUser
VerifyStart(body) ==
    /\ LET key == toLowerCase(body.email) IN
       IF ~Truthy(body.email) \/ ~Truthy(body.otp)
       THEN /\ Respond("verifyOTP", 400, [message |-> "Email and OTP are required"])
            /\ UNCHANGED <<otpStore, meta, calls>>
       ELSE IF ~MapHas(otpStore, key)
       THEN /\ Respond("verifyOTP", 400,
                       [message |-> "No verification pending for this email"])
            /\ UNCHANGED <<otpStore, meta, calls>>
       ELSE IF IsExpired(otpStore[key], now)
       THEN /\ VerifyExpired(key)
            /\ UNCHANGED calls
       ELSE IF TooManyAttempts(otpStore[key])
       THEN /\ VerifyTooMany(key)
            /\ UNCHANGED calls
       ELSE IF OtpMismatch(otpStore[key], body.otp)
       THEN /\ VerifyMismatch(key)
            /\ UNCHANGED calls
       ELSE /\ Await([pc |-> "createUser", body |-> body,
                       userData |-> otpStore[key].userData])
            /\ Silent
            /\ UNCHANGED <<otpStore, meta>>
    /\ UNCHANGED <<now, timers, users, issueSeq, confirmed>>

\* storage.createUser resolves: otpStore.delete, the cookie, the 201
VerifyCreated(c) ==
    /\ c \in Waiting
    /\ c.pc = "createUser"
    /\ "created" \in createUserOutcomes(c.userData.email)
    /\ LET user == CreatedUser(c.userData) IN
        /\ users' = MapSet(users, user.email, user)
        /\ DeleteOTP(toLowerCase(c.body.email))
        /\ Respond("verifyOTP", 201,
                   [message |-> "Email verified! Account created successfully.",
                    user |-> userResponse(user),
                    token |-> generateToken(user.id)])
        /\ confirmed' = MapSet(confirmed, user.email, c.body.otp)
    /\ Return(c)
    /\ UNCHANGED <<now, timers, issueSeq>>

\* the catch block cleaning up the code as the success path does
VerifyCatchDeletes(c) ==
    /\ c \in Waiting
    /\ c.pc = "createUser"
    /\ "throws" \in createUserOutcomes(c.userData.email)
    /\ Respond("verifyOTP", 500, [message |-> "Verification failed"])
    /\ DeleteOTP(toLowerCase(c.body.email))
    /\ Return(c)
    /\ UNCHANGED <<now, timers, users, issueSeq, confirmed>>

\* storage.createUser rejects: the catch block's 500
VerifyCatch(c) ==
    /\ c \in Waiting
    /\ c.pc = "createUser"
    /\ "throws" \in createUserOutcomes(c.userData.email)
    /\ Respond("verifyOTP", 500, [message |-> "Verification failed"])
    /\ Return(c)
    /\ UNCHANGED <<now, otpStore, timers, users, issueSeq, meta, confirmed>>

-----------------------------------------------------------------------------
(* resendOTP *)

\* the update leaving the attempts as they are
ReissuedKeepsAttempts(stored, newOTP, t) ==
    [stored EXCEPT !.otp = newOTP, !.expires = t + OTP_TTL_MS]

\* `stored.otp = newOTP; stored.expires = Date.now() + ...; stored.attempts = 0`
Reissued(stored, newOTP, t) ==
    [stored EXCEPT !.otp = newOTP, !.expires = t + OTP_TTL_MS, !.attempts = 0]

ResendBodies == [email : Emails]

\* resendOTP: it awaits nothing
resendOTP(body) ==
    /\ LET key == toLowerCase(body.email) IN
       IF ~Truthy(body.email)
       THEN /\ Respond("resendOTP", 400, [message |-> "Email is required"])
            /\ UNCHANGED <<otpStore, meta>>
       ELSE IF ~MapHas(otpStore, key)
       THEN /\ Respond("resendOTP", 400,
                       [message |-> "No verification pending for this email"])
            /\ UNCHANGED <<otpStore, meta>>
       ELSE \E newOTP \in generateOTP :
            /\ otpStore' = [otpStore EXCEPT ![key] = Reissued(otpStore[key], newOTP, now)]
            /\ meta' = [meta EXCEPT ![key].mismatches = 0]
            /\ Respond("resendOTP", 200,
                       [message |-> "New verification code sent! Check server console.",
                        devNote |-> "For development: Check server console for new OTP code"])
    /\ UNCHANGED <<now, timers, users, calls, issueSeq, confirmed>>

-----------------------------------------------------------------------------
(* The browser: values *)

\* null and a present value of a nullable field
Null == <<>>
Some(x) == <<x>>
IsNull(v) == v = <<>>
Val(v) == v[1]

\* 'true', 'User' and 'INDIE2025' as the code spells them
TrueText == <<"t", "r", "u", "e">>
UserText == <<"U", "s", "e", "r">>
INDIE2025 == <<"I", "N", "D", "I", "E", "2", "0", "2", "5">>

DigitValue(c) ==
    CASE c = "0" -> 0 [] c = "1" -> 1 [] c = "2" -> 2 [] c = "3" -> 3
      [] c = "4" -> 4 [] c = "5" -> 5 [] c = "6" -> 6 [] c = "7" -> 7
      [] c = "8" -> 8 [] c = "9" -> 9

RECURSIVE parseInt(_)
\* parseInt of a string of decimal digits
parseInt(s) ==
    IF Len(s) = 1 THEN DigitValue(s[1])
    ELSE 10 * parseInt(SubSeq(s, 1, Len(s) - 1)) + DigitValue(s[Len(s)])

\* email.split('@')[0]
LocalPart(email) ==
    LET ats == { i \in DOMAIN email : email[i] = "@" }
        first == IF ats = {} THEN Len(email) + 1
                 ELSE CHOOSE i \in ats : \A j \in ats : i <= j
    IN  SubSeq(email, 1, first - 1)

\* the user the IdP knows: providerData, uid, email, displayName
FirebaseUser ==
    [uid |-> "fb1",
     email |-> <<"a", "@", "x", ".", "c", "o">>,
     displayName |-> Some(<<"F", "b">>),
     photoURL |-> Null,
     emailVerified |-> TRUE]

\* the tier fields the backend can hold for an account
TierSnapshots ==
    { [tier |-> "free", totalPages |-> 10, maxShotsPerScene |-> 5,
       canGenerateStoryboards |-> FALSE],
      [tier |-> "free", totalPages |-> 50, maxShotsPerScene |-> 5,
       canGenerateStoryboards |-> FALSE],
      [tier |-> "pro", totalPages |-> -1, maxShotsPerScene |-> -1,
       canGenerateStoryboards |-> TRUE] }

\* updateUserData: 'premium@demo.com'
PremiumDemoEmail ==
    <<"p", "r", "e", "m", "i", "u", "m", "@", "d", "e", "m", "o", ".", "c", "o", "m">>

\* the identity fields the backend can answer with: a full profile, and one
\* that leaves displayName and provider out
BackendProfiles ==
    { [id |-> "u1", email |-> <<"a", "@", "x", ".", "c", "o">>,
       displayName |-> Some(<<"A", "d", "a">>), provider |-> Some("google.com")],
      [id |-> "u1", email |-> <<"a", "@", "x", ".", "c", "o">>,
       displayName |-> Null, provider |-> Null] }

\* the premium demo account as the backend can hold it: on the free tier
PremiumDemoUser ==
    [id |-> "u2", email |-> PremiumDemoEmail, displayName |-> Null,
     provider |-> Null, tier |-> "free", usedPages |-> 0, totalPages |-> 10,
     maxShotsPerScene |-> 5, canGenerateStoryboards |-> FALSE]

\* the bodies of an OK answer of /api/auth/firebase-sync
BackendUsers ==
    { [id |-> p.id, email |-> p.email, displayName |-> p.displayName,
       provider |-> p.provider, tier |-> t.tier, usedPages |-> 0,
       totalPages |-> t.totalPages, maxShotsPerScene |-> t.maxShotsPerScene,
       canGenerateStoryboards |-> t.canGenerateStoryboards]
      : p \in BackendProfiles, t \in TierSnapshots }
    \cup { PremiumDemoUser }

\* the `user` of an OK answer of /api/auth/refresh-session
FreshUsers ==
    { [tier |-> t.tier, totalPages |-> t.totalPages,
       maxShotsPerScene |-> t.maxShotsPerScene,
       canGenerateStoryboards |-> t.canGenerateStoryboards] : t \in TierSnapshots }

\* the bodies of an OK answer of /api/auth/user, as far as they set fields
\* of AuthUser: the account's tier fields and page count
DatabaseUsers ==
    { [tier |-> t.tier, usedPages |-> 0, totalPages |-> t.totalPages,
       maxShotsPerScene |-> t.maxShotsPerScene,
       canGenerateStoryboards |-> t.canGenerateStoryboards] : t \in TierSnapshots }

\* what the pages of the client pass to updateUserData: an edited profile
ProfileEdits == { [displayName |-> <<"E", "v">>] }

\* the callbacks the pages of the client pass to onAuthStateChange
Callbacks == { "useAuth" }

\* createBackendSession: `this.user = { id: userData.id, ... }`
SessionUser(userData) ==
    [id |-> userData.id,
     email |-> userData.email,
     displayName |->
        IF ~IsNull(userData.displayName) /\ Truthy(Val(userData.displayName))
        THEN Val(userData.displayName)
        ELSE IF Truthy(LocalPart(userData.email)) THEN LocalPart(userData.email)
        ELSE UserText,
     provider |-> IF IsNull(userData.provider) THEN "password"
                  ELSE Val(userData.provider),
     tier |-> userData.tier,
     usedPages |-> userData.usedPages,
     totalPages |-> userData.totalPages,
     maxShotsPerScene |-> userData.maxShotsPerScene,
     canGenerateStoryboards |-> userData.canGenerateStoryboards]

\* createBackendSession: the authData object, built and not sent
authData(firebaseUser, couponCode) ==
    [idToken |-> "idToken",
     provider |-> "password",
     providerUserId |-> firebaseUser.uid,
     email |-> firebaseUser.email,
     displayName |-> firebaseUser.displayName,
     photoURL |-> firebaseUser.photoURL,
     couponCode |-> couponCode]

\* createBackendSession: the fetch of /api/auth/firebase-sync
ExchangeRequest(firebaseUser) ==
    [url |-> "/api/auth/firebase-sync",
     method |-> "POST",
     body |-> [firebaseUser |-> [uid |-> firebaseUser.uid,
                                 email |-> firebaseUser.email,
                                 displayName |-> firebaseUser.displayName,
                                 photoURL |-> firebaseUser.photoURL,
                                 emailVerified |-> firebaseUser.emailVerified],
               provider |-> "firebase"]]

\* validateAndUpdateTier: the fetch of /api/auth/refresh-session
RefreshRequest == [url |-> "/api/auth/refresh-session", method |-> "POST"]

\* refreshFromDatabase: the fetch of /api/auth/user
DatabaseRequest == [url |-> "/api/auth/user", method |-> "GET"]

\* logout: the fetch of /api/auth/logout
LogoutRequest == [url |-> "/api/auth/logout", method |-> "POST"]

\* signOut(auth)
SignOutCall == [url |-> "firebase:signOut", method |-> "CALL"]

-----------------------------------------------------------------------------
(* The browser: state *)

VARIABLES
    authState,          \* AuthManager.authState
    user,               \* AuthManager.user
    isLoggedOut,        \* AuthManager.isLoggedOut
    pendingCouponCode,  \* AuthManager.pendingCouponCode
    unsubscribeAuth,    \* AuthManager.unsubscribeAuth: the subscription it cancels
    lastNotifiedState,  \* AuthManager.lastNotifiedState
    listeners,          \* AuthManager.listeners
    localStorage,       \* window.localStorage: a function on the keys present
    auth,               \* the IdP's current user, kept across page loads
    observers,          \* the onAuthStateChanged subscriptions that are active
    inbox,              \* IdP notifications dispatched and not yet handled
    tasks,              \* the client's async functions waiting at an await
    pageTimers,         \* pending setTimeout callbacks of the page
    emitted,            \* the (state, user) pairs notifyListeners passed to every
                        \* one of the listeners in the last step
    replayed,           \* the calls onAuthStateChange made on its callback in the
                        \* last step
    sent,               \* the calls the last step made on the backend and the IdP
    logoutAt,           \* history: when logout() was last called, null before
                        \* that and after enableAuth()
    ops                 \* history: calls the user made so far

manager == <<authState, user, isLoggedOut, pendingCouponCode, unsubscribeAuth,
             lastNotifiedState, listeners, localStorage, auth, observers, inbox,
             pageTimers, emitted, replayed, sent>>

clientVars == <<manager, tasks, logoutAt, ops>>

ledgerVars == <<otpStore, timers, users, calls, resp, issueSeq, meta, confirmed,
                validation>>

allVars == <<now, ledgerVars, clientVars>>

\* localStorage.getItem / setItem / removeItem
getItem(ls, k) == IF MapHas(ls, k) THEN Some(ls[k]) ELSE Null
setItem(ls, k, v) == MapSet(ls, k, v)
removeItem(ls, k) == MapDelete(ls, k)

\* the fields a step of the client works on, as they are before the step;
\* it has given nothing to listeners and called nothing yet
Here ==
    [authState |-> authState, user |-> user, isLoggedOut |-> isLoggedOut,
     pendingCouponCode |-> pendingCouponCode, unsubscribeAuth |-> unsubscribeAuth,
     lastNotifiedState |-> lastNotifiedState, listeners |-> listeners,
     localStorage |-> localStorage,
     auth |-> auth, observers |-> observers, inbox |-> inbox,
     pageTimers |-> pageTimers, emitted |-> <<>>, replayed |-> <<>>, sent |-> <<>>]

\* the step ends with the fields m
Become(m) ==
    /\ authState' = m.authState
    /\ user' = m.user
    /\ isLoggedOut' = m.isLoggedOut
    /\ pendingCouponCode' = m.pendingCouponCode
    /\ unsubscribeAuth' = m.unsubscribeAuth
    /\ lastNotifiedState' = m.lastNotifiedState
    /\ listeners' = m.listeners
    /\ localStorage' = m.localStorage
    /\ auth' = m.auth
    /\ observers' = m.observers
    /\ inbox' = m.inbox
    /\ pageTimers' = m.pageTimers
    /\ emitted' = m.emitted
    /\ replayed' = m.replayed
    /\ sent' = m.sent

\* an async function reaches an await with locals c / goes on / returns
Spawn(c) == tasks' = tasks (+) SetToBag({c})
Proceed(c, d) == tasks' = (tasks (-) SetToBag({c})) (+) SetToBag({d})
Finish(c) == tasks' = tasks (-) SetToBag({c})

Suspended == BagToSet(tasks)

\* the step calls `request`
Call(m, request) == [m EXCEPT !.sent = Append(m.sent, request)]

-----------------------------------------------------------------------------
(* The IdP's notification stream *)

RECURSIVE NotificationsFor(_, _)
\* one notification of `u` per subscription in S
NotificationsFor(S, u) ==
    IF S = {} THEN <<>>
    ELSE LET s == CHOOSE x \in S : \A y \in S : x <= y
         IN  <<[sub |-> s, user |-> u]>> \o NotificationsFor(S \ {s}, u)

\* the IdP's current user becomes u: the subscriptions are notified of a change
SetCurrentUser(m, u) ==
    IF m.auth = u THEN m
    ELSE [m EXCEPT !.auth = u,
                   !.inbox = m.inbox \o NotificationsFor(m.observers, u)]

\* onAuthStateChanged(auth, callback): the subscription is registered and is
\* told the current user
Subscribe(m) ==
    LET id == CHOOSE i \in 1..(Cardinality(m.observers) + 1) : i \notin m.observers
    IN  [m EXCEPT !.unsubscribeAuth = Some(id),
                  !.observers = m.observers \cup {id},
                  !.inbox = Append(m.inbox, [sub |-> id, user |-> m.auth])]

\* the function onAuthStateChanged returned, called
Unsubscribe(m, id) == [m EXCEPT !.observers = m.observers \ {id}]

-----------------------------------------------------------------------------
(* AuthManager: notifyListeners, initialize, the constructor *)

\* JSON.stringify(a) === JSON.stringify(b) for two users or nulls: the users
\* are built with one key order, so the texts are equal when the values are
SameJSON(a, b) == a = b

\* notifyListeners without the comparison with the last emission
notifyListenersAlways(m) ==
    [m EXCEPT !.lastNotifiedState = Some([state |-> m.authState, user |-> m.user]),
              !.emitted = Append(m.emitted, [state |-> m.authState, user |-> m.user])]

\* notifyListeners: nothing is emitted when the state and the user's JSON
\* text are those of the last emission
notifyListeners(m) ==
    IF /\ ~IsNull(m.lastNotifiedState)
       /\ Val(m.lastNotifiedState).state = m.authState
       /\ SameJSON(Val(m.lastNotifiedState).user, m.user)
    THEN m
    ELSE [m EXCEPT !.lastNotifiedState = Some([state |-> m.authState, user |-> m.user]),
                   !.emitted = Append(m.emitted, [state |-> m.authState, user |-> m.user])]

\* the test of the lock's age letting a lock of exactly 120 seconds pass
RecentLogoutInclusive(ls, t) ==
    /\ ~IsNull(getItem(ls, "logout_timestamp"))
    /\ Truthy(Val(getItem(ls, "logout_timestamp")))
    /\ t - parseInt(Val(getItem(ls, "logout_timestamp"))) <= LOCK_TTL_MS

\* `logoutTime && (t - parseInt(logoutTime)) < 120000`
RecentLogout(ls, t) ==
    /\ ~IsNull(getItem(ls, "logout_timestamp"))
    /\ Truthy(Val(getItem(ls, "logout_timestamp")))
    /\ t - parseInt(Val(getItem(ls, "logout_timestamp"))) < LOCK_TTL_MS

\* `localStorage.getItem('auth_disabled') === 'true'`
AuthDisabled(ls) == getItem(ls, "auth_disabled") = Some(TrueText)

\* the logout lock is persisted and has not expired at time t
LockActive(ls, t) == AuthDisabled(ls) /\ RecentLogout(ls, t)

\* initialize() at time t
initialize(m, t) ==
    IF AuthDisabled(m.localStorage)
    THEN IF RecentLogout(m.localStorage, t)
         THEN notifyListeners([m EXCEPT !.authState = "disabled",
                                        !.user = Null,
                                        !.isLoggedOut = TRUE])
         ELSE Subscribe([m EXCEPT
                !.localStorage = removeItem(removeItem(m.localStorage, "auth_disabled"),
                                            "logout_timestamp"),
                !.isLoggedOut = FALSE])
    ELSE Subscribe(m)

\* a page load at time t: the old page's subscriptions, notifications and
\* timers are gone, the fields have their initial values, and the constructor
\* runs initialize()
Loaded(m, t) ==
    initialize([m EXCEPT !.authState = "loading",
                         !.user = Null,
                         !.isLoggedOut = FALSE,
                         !.pendingCouponCode = Null,
                         !.unsubscribeAuth = Null,
                         !.lastNotifiedState = Null,
                         !.listeners = <<>>,
                         !.observers = {},
                         !.inbox = <<>>,
                         !.pageTimers = {}], t)

\* the first page load of a visit: no lock stored, the IdP's current user u
FirstLoad(u) ==
    /\ LET m == Loaded([authState |-> "loading", user |-> Null, isLoggedOut |-> FALSE,
                        pendingCouponCode |-> Null, unsubscribeAuth |-> Null,
                        lastNotifiedState |-> Null, listeners |-> <<>>,
                        localStorage |-> EmptyMap,
                        auth |-> u, observers |-> {}, inbox |-> <<>>,
                        pageTimers |-> {}, emitted |-> <<>>, replayed |-> <<>>,
                        sent |-> <<>>], 0)
       IN  /\ authState = m.authState
           /\ user = m.user
           /\ isLoggedOut = m.isLoggedOut
           /\ pendingCouponCode = m.pendingCouponCode
           /\ unsubscribeAuth = m.unsubscribeAuth
           /\ lastNotifiedState = m.lastNotifiedState
           /\ listeners = m.listeners
           /\ localStorage = m.localStorage
           /\ auth = m.auth
           /\ observers = m.observers
           /\ inbox = m.inbox
           /\ pageTimers = m.pageTimers
           /\ emitted = m.emitted
           /\ replayed = m.replayed
           /\ sent = m.sent
    /\ tasks = EmptyBag
    /\ logoutAt = Null
    /\ ops = 0

\* the first visit: nobody signed in
ClientInit == FirstLoad(Null)

Init ==
    /\ now = 0
    /\ LedgerInit
    /\ ClientInit

\* a later visit: the IdP holds the session it persisted
ReturningInit ==
    /\ now = 0
    /\ LedgerInit
    /\ FirstLoad(Some(FirebaseUser))

-----------------------------------------------------------------------------
(* AuthManager: the onAuthStateChanged callback and createBackendSession *)

\* the callback's guard: `this.authState === 'disabled' || this.isLoggedOut ||
\* recentLogout || localStorage.getItem('auth_disabled') === 'true'`
Blocked(m, t) ==
    \/ m.authState = "disabled"
    \/ m.isLoggedOut
    \/ RecentLogout(m.localStorage, t)
    \/ AuthDisabled(m.localStorage)

\* the callback runs for the oldest notification, up to its first await
Deliver ==
    /\ inbox # <<>>
    /\ LET n == Head(inbox)
           m == [Here EXCEPT !.inbox = Tail(inbox)]
       IN  IF Blocked(m, now)
           THEN IF ~IsNull(n.user)
                THEN /\ Become(Call(m, SignOutCall))
                     /\ Spawn([pc |-> "forceSignOut"])
                ELSE /\ Become(notifyListeners([m EXCEPT !.authState = "disabled",
                                                         !.user = Null]))
                     /\ UNCHANGED tasks
           ELSE IF ~IsNull(n.user)
                THEN /\ Become(m)
                     /\ Spawn([pc |-> "getIdToken", firebaseUser |-> Val(n.user)])
                ELSE /\ Become(notifyListeners([m EXCEPT !.authState = "unauthenticated",
                                                         !.user = Null]))
                     /\ UNCHANGED tasks
    /\ UNCHANGED <<now, logoutAt, ops>>

\* a notification of a cancelled subscription is not run
Drop ==
    /\ inbox # <<>>
    /\ Head(inbox).sub \notin observers
    /\ Become([Here EXCEPT !.inbox = Tail(inbox)])
    /\ UNCHANGED <<now, tasks, logoutAt, ops>>

\* forceSignOut settles, signed out or not; the callback's blocked branch ends
ForceSignOutDone(c) ==
    /\ c \in Suspended
    /\ c.pc = "forceSignOut"
    /\ \E signedOut \in BOOLEAN :
        LET m == IF signedOut THEN SetCurrentUser(Here, Null) ELSE Here
        IN  Become(notifyListeners([m EXCEPT !.authState = "disabled", !.user = Null]))
    /\ Finish(c)
    /\ UNCHANGED <<now, logoutAt, ops>>

\* getIdToken resolves: authData is built, the exchange is fetched
IdTokenResolved(c) ==
    /\ c \in Suspended
    /\ c.pc = "getIdToken"
    /\ Become(Call(Here, ExchangeRequest(c.firebaseUser)))
    /\ Proceed(c, [c EXCEPT !.pc = "fetch"])
    /\ UNCHANGED <<now, logoutAt, ops>>

\* scheduleAutomaticTierValidation at time t
scheduleAutomaticTierValidation(m, t) ==
    IF IsNull(m.user) THEN m
    ELSE [m EXCEPT !.pageTimers = m.pageTimers \cup
                        { [kind |-> "validateAndUpdateTier",
                           at |-> t + TIER_VALIDATION_DELAY_MS] }]

\* the session user taken from the IdP's record and not from the answer
SessionEstablishedFromIdp(m, firebaseUser, userData) ==
    [m EXCEPT !.user = Some([SessionUser(userData) EXCEPT
                                !.displayName = Val(firebaseUser.displayName)]),
              !.authState = "authenticated",
              !.pendingCouponCode = Null]

\* the `response.ok` branch of createBackendSession, before the timer and
\* the notification
SessionEstablished(m, firebaseUser, userData) ==
    [m EXCEPT !.user = Some(SessionUser(userData)),
              !.authState = "authenticated",
              !.pendingCouponCode = Null]

\* the exchange answers OK with userData
ExchangeOk(c, userData) ==
    /\ c \in Suspended
    /\ c.pc = "fetch"
    /\ Become(notifyListeners(
            scheduleAutomaticTierValidation(
                SessionEstablished(Here, c.firebaseUser, userData), now)))
    /\ Finish(c)
    /\ UNCHANGED <<now, logoutAt, ops>>

\* the non-OK branch and the catch block of createBackendSession
SessionRefused(m) ==
    [m EXCEPT !.authState = "unauthenticated",
              !.user = Null,
              !.pendingCouponCode = Null]

\* getIdToken or the fetch rejects, or the exchange answers an error status
ExchangeFailed(c) ==
    /\ c \in Suspended
    /\ c.pc \in {"getIdToken", "fetch"}
    /\ Become(notifyListeners(SessionRefused(Here)))
    /\ Finish(c)
    /\ UNCHANGED <<now, logoutAt, ops>>

-----------------------------------------------------------------------------
(* AuthManager: validateAndUpdateTier *)

\* the timer of scheduleAutomaticTierValidation runs: `if (!this.user) return`,
\* else the fetch
ValidateTimerUnguarded(t) ==
    /\ t \in pageTimers
    /\ t.kind = "validateAndUpdateTier"
    /\ t.at <= now
    /\ Become(Call([Here EXCEPT !.pageTimers = pageTimers \ {t}], RefreshRequest))
    /\ Spawn([pc |-> "refreshSession"])
    /\ UNCHANGED <<now, logoutAt, ops>>

ValidateTimer(t) ==
    /\ t \in pageTimers
    /\ t.kind = "validateAndUpdateTier"
    /\ t.at <= now
    /\ LET m == [Here EXCEPT !.pageTimers = pageTimers \ {t}]
       IN  IF IsNull(user)
           THEN /\ Become(m)
                /\ UNCHANGED tasks
           ELSE /\ Become(Call(m, RefreshRequest))
                /\ Spawn([pc |-> "refreshSession"])
    /\ UNCHANGED <<now, logoutAt, ops>>

\* `freshUserData.tier !== this.user.tier || ...canGenerateStoryboards ||
\* ...maxShotsPerScene`
TierDiffers(cached, fresh) ==
    \/ fresh.tier # cached.tier
    \/ fresh.canGenerateStoryboards # cached.canGenerateStoryboards
    \/ fresh.maxShotsPerScene # cached.maxShotsPerScene

\* `this.user = { ...this.user, tier: ..., totalPages: ..., ... }`
WithTier(cached, fresh) ==
    [cached EXCEPT !.tier = fresh.tier,
                   !.totalPages = fresh.totalPages,
                   !.maxShotsPerScene = fresh.maxShotsPerScene,
                   !.canGenerateStoryboards = fresh.canGenerateStoryboards]

\* the refresh answers OK with `fresh`; with the user gone the comparison
\* throws and the catch block logs it
RefreshOk(c, fresh) ==
    /\ c \in Suspended
    /\ c.pc = "refreshSession"
    /\ IF ~IsNull(user) /\ TierDiffers(Val(user), fresh)
       THEN Become(notifyListeners([Here EXCEPT !.user = Some(WithTier(Val(user), fresh))]))
       ELSE Become(Here)
    /\ Finish(c)
    /\ UNCHANGED <<now, logoutAt, ops>>

\* a failed refresh falling back to unauthenticated, as a failed exchange does
RefreshFailedSignsOut(c) ==
    /\ c \in Suspended
    /\ c.pc = "refreshSession"
    /\ Become(notifyListeners(SessionRefused(Here)))
    /\ Finish(c)
    /\ UNCHANGED <<now, logoutAt, ops>>

\* the refresh answers an error status, or the fetch rejects
RefreshFailed(c) ==
    /\ c \in Suspended
    /\ c.pc = "refreshSession"
    /\ Become(Here)
    /\ Finish(c)
    /\ UNCHANGED <<now, logoutAt, ops>>

-----------------------------------------------------------------------------
(* AuthManager: logout, enableAuth *)

\* the keys clearFirebaseData's loop picks: startsWith('firebase:'),
\* includes('firebase') or includes('auth')
MatchesAuthKey(k) ==
    CASE k = "auth_disabled" -> TRUE
      [] k = "logout_timestamp" -> FALSE
      [] OTHER -> FALSE

\* clearFirebaseData: the loop's keys and authKeys are removed
clearFirebaseData(m) ==
    [m EXCEPT !.localStorage =
        [k \in { x \in DOMAIN m.localStorage :
                    /\ ~MatchesAuthKey(x)
                    /\ x \notin {"auth_disabled", "logout_timestamp"} }
            |-> m.localStorage[k]]]

\* `setTimeout(() => { window.location.href = '/' }, 100)` at time t
ScheduleReload(m, t) ==
    [m EXCEPT !.pageTimers = m.pageTimers \cup
                    { [kind |-> "reload", at |-> t + RELOAD_DELAY_MS] }]

\* logout() clearing the user and leaving the state as it is
LoggedOutKeepsState(m, t) ==
    [m EXCEPT !.isLoggedOut = TRUE,
              !.user = Null,
              !.localStorage = setItem(setItem(m.localStorage, "auth_disabled", TrueText),
                                       "logout_timestamp", toString(t))]

\* the flags and the lock written by logout() at time t
LoggedOut(m, t) ==
    [m EXCEPT !.isLoggedOut = TRUE,
              !.authState = "disabled",
              !.user = Null,
              !.localStorage = setItem(setItem(m.localStorage, "auth_disabled", TrueText),
                                       "logout_timestamp", toString(t))]

\* logout() putting off the lock until the sign-out is done
LogoutStartDeferred(m, t) ==
    LET m1 == IF IsNull(m.unsubscribeAuth) THEN m
              ELSE [Unsubscribe(m, Val(m.unsubscribeAuth))
                        EXCEPT !.unsubscribeAuth = Null]
    IN  Call(m1, SignOutCall)

\* logout() up to `await signOut(auth)`: the flags, the lock, the
\* notification, the unsubscribe, the call of signOut
LogoutStart(m, t) ==
    LET m1 == notifyListeners(LoggedOut(m, t))
        m2 == IF IsNull(m1.unsubscribeAuth) THEN m1
              ELSE [Unsubscribe(m1, Val(m1.unsubscribeAuth))
                        EXCEPT !.unsubscribeAuth = Null]
    IN  Call(m2, SignOutCall)

Logout ==
    /\ ops < MaxUserOps
    /\ Become(LogoutStart(Here, now))
    /\ Spawn([pc |-> "logout.signOut"])
    /\ logoutAt' = Some(now)
    /\ ops' = ops + 1
    /\ UNCHANGED now

\* signOut resolves: the backend logout is fetched
LogoutSignedOut(c) ==
    /\ c \in Suspended
    /\ c.pc = "logout.signOut"
    /\ Become(Call(SetCurrentUser(Here, Null), LogoutRequest))
    /\ Proceed(c, [c EXCEPT !.pc = "logout.fetch"])
    /\ UNCHANGED <<now, logoutAt, ops>>

\* the backend logout answers, OK or not: clearFirebaseData, the reload timer
LogoutFetched(c) ==
    /\ c \in Suspended
    /\ c.pc = "logout.fetch"
    /\ Become(ScheduleReload(clearFirebaseData(Here), now))
    /\ Finish(c)
    /\ UNCHANGED <<now, logoutAt, ops>>

\* signOut or the fetch rejects: the catch block's clearFirebaseData and
\* reload timer
LogoutCatch(c) ==
    /\ c \in Suspended
    /\ c.pc \in {"logout.signOut", "logout.fetch"}
    /\ Become(ScheduleReload(clearFirebaseData(Here), now))
    /\ Finish(c)
    /\ UNCHANGED <<now, logoutAt, ops>>

\* enableAuth() leaving the subscription it holds in place
EnabledKeepsSubscription(m, t) ==
    initialize(notifyListeners(
                [m EXCEPT !.localStorage =
                              removeItem(removeItem(m.localStorage, "auth_disabled"),
                                         "logout_timestamp"),
                          !.isLoggedOut = FALSE,
                          !.authState = "loading"]), t)

\* enableAuth() at time t
Enabled(m, t) ==
    LET m1 == notifyListeners(
                [m EXCEPT !.localStorage =
                              removeItem(removeItem(m.localStorage, "auth_disabled"),
                                         "logout_timestamp"),
                          !.isLoggedOut = FALSE,
                          !.authState = "loading"])
        m2 == IF IsNull(m1.unsubscribeAuth) THEN m1
              ELSE Unsubscribe(m1, Val(m1.unsubscribeAuth))
    IN  initialize(m2, t)

EnableAuth ==
    /\ ops < MaxUserOps
    /\ Become(Enabled(Here, now))
    /\ logoutAt' = Null
    /\ ops' = ops + 1
    /\ UNCHANGED <<now, tasks>>

-----------------------------------------------------------------------------
(* AuthManager: onAuthStateChange, updateUserData, refreshFromDatabase *)

\* onAuthStateChange(callback) that registers the callback and does not call it
onAuthStateChangeSilent(m, callback) ==
    [m EXCEPT !.listeners = Append(m.listeners, callback)]

\* onAuthStateChange(callback): the push and the immediate call
onAuthStateChange(m, callback) ==
    [m EXCEPT !.listeners = Append(m.listeners, callback),
              !.replayed = Append(m.replayed,
                                  [to |-> callback, state |-> m.authState,
                                   user |-> m.user])]

OnAuthStateChange(callback) ==
    /\ Len(listeners) < MaxListeners
    /\ Become(onAuthStateChange(Here, callback))
    /\ UNCHANGED <<now, tasks, logoutAt, ops>>

\* the function onAuthStateChange returned, called:
\* `this.listeners.filter(l => l !== callback)`
Unlisten(callback) ==
    /\ \E i \in DOMAIN listeners : listeners[i] = callback
    /\ Become([Here EXCEPT !.listeners =
                    SelectSeq(listeners, LAMBDA l : l # callback)])
    /\ UNCHANGED <<now, tasks, logoutAt, ops>>

\* `{ ...a, ...b }`
Spread(a, b) ==
    [k \in DOMAIN a \cup DOMAIN b |-> IF k \in DOMAIN b THEN b[k] ELSE a[k]]

\* updateUserData(userData)
updateUserData(m, userData) ==
    IF IsNull(m.user) THEN m
    ELSE LET isPremiumDemo == Val(m.user).email = PremiumDemoEmail
             merged == IF isPremiumDemo
                       THEN Spread(userData,
                                   [tier |-> "pro", totalPages |-> -1,
                                    maxShotsPerScene |-> -1,
                                    canGenerateStoryboards |-> TRUE])
                       ELSE userData
         IN  notifyListeners([m EXCEPT !.user = Some(Spread(Val(m.user), merged))])

\* a page of the client calls updateUserData
UpdateUserData(userData) ==
    /\ ops < MaxUserOps
    /\ Become(updateUserData(Here, userData))
    /\ ops' = ops + 1
    /\ UNCHANGED <<now, tasks, logoutAt>>

\* refreshFromDatabase up to `await fetch('/api/auth/user')`
RefreshFromDatabase ==
    /\ ops < MaxUserOps
    /\ Become(Call(Here, DatabaseRequest))
    /\ Spawn([pc |-> "refreshFromDatabase"])
    /\ ops' = ops + 1
    /\ UNCHANGED <<now, logoutAt>>

\* /api/auth/user answers OK with userData
DatabaseOk(c, userData) ==
    /\ c \in Suspended
    /\ c.pc = "refreshFromDatabase"
    /\ Become(updateUserData(Here, userData))
    /\ Finish(c)
    /\ UNCHANGED <<now, logoutAt, ops>>

\* /api/auth/user answers an error status, or the fetch rejects
DatabaseFailed(c) ==
    /\ c \in Suspended
    /\ c.pc = "refreshFromDatabase"
    /\ Become(Here)
    /\ Finish(c)
    /\ UNCHANGED <<now, logoutAt, ops>>

-----------------------------------------------------------------------------
(* The page and the user *)

\* logout's timer runs: `window.location.href = '/'` loads the page anew
ReloadTimer(t) ==
    /\ t \in pageTimers
    /\ t.kind = "reload"
    /\ t.at <= now
    /\ Become(Loaded(Here, now))
    /\ tasks' = EmptyBag
    /\ UNCHANGED <<now, logoutAt, ops>>

\* the user reloads the page
UserReload ==
    /\ ops < MaxUserOps
    /\ Become(Loaded(Here, now))
    /\ tasks' = EmptyBag
    /\ ops' = ops + 1
    /\ UNCHANGED <<now, logoutAt>>

\* signInWithEmail or signInWithToken goes through at the IdP; the AuthManager
\* keeps nothing of the call
SignIn ==
    /\ ops < MaxUserOps
    /\ IsNull(auth)
    /\ Become(SetCurrentUser(Here, Some(FirebaseUser)))
    /\ ops' = ops + 1
    /\ UNCHANGED <<now, tasks, logoutAt>>

\* signUpWithEmail up to `await createUserWithEmailAndPassword`
SignUpStart(isPremiumCoupon) ==
    /\ ops < MaxUserOps
    /\ Become([Here EXCEPT !.pendingCouponCode =
                    IF isPremiumCoupon THEN Some(INDIE2025) ELSE pendingCouponCode])
    /\ Spawn([pc |-> "signUp"])
    /\ ops' = ops + 1
    /\ UNCHANGED <<now, logoutAt>>

\* createUserWithEmailAndPassword resolves: the IdP has signed the user in
SignUpCreated(c) ==
    /\ c \in Suspended
    /\ c.pc = "signUp"
    /\ IsNull(auth)
    /\ Become(SetCurrentUser(Here, Some(FirebaseUser)))
    /\ Finish(c)
    /\ UNCHANGED <<now, logoutAt, ops>>

\* createUserWithEmailAndPassword rejects: the catch block
SignUpFailed(c) ==
    /\ c \in Suspended
    /\ c.pc = "signUp"
    /\ Become([Here EXCEPT !.pendingCouponCode = Null])
    /\ Finish(c)
    /\ UNCHANGED <<now, logoutAt, ops>>

\* the instants the wall clock is read at: when a timer is due, and one
\* second, one millisecond short of 120 seconds, and 120 seconds after logout()
Instants ==
    { t.at : t \in pageTimers }
    \cup (IF IsNull(logoutAt) THEN {}
          ELSE { Val(logoutAt) + SECOND_MS,
                 Val(logoutAt) + LOCK_TTL_MS - 1,
                 Val(logoutAt) + LOCK_TTL_MS })

\* time passes up to the next instant; a timer that is due runs first
Elapse ==
    /\ \E t \in Instants :
        /\ t > now
        /\ \A r \in pageTimers : now < r.at /\ t <= r.at
        /\ now' = t
    /\ Become(Here)
    /\ UNCHANGED <<tasks, logoutAt, ops>>

-----------------------------------------------------------------------------
(* The reconciler *)

\* the session: notifications, exchange, tier validation, logout, enableAuth,
\* sign-in and sign-up, page loads, the clock
Session ==
    \/ Deliver /\ UNCHANGED ledgerVars
    \/ Drop /\ UNCHANGED ledgerVars
    \/ \E c \in Suspended : ForceSignOutDone(c) /\ UNCHANGED ledgerVars
    \/ \E c \in Suspended : IdTokenResolved(c) /\ UNCHANGED ledgerVars
    \/ \E c \in Suspended, userData \in BackendUsers :
            ExchangeOk(c, userData) /\ UNCHANGED ledgerVars
    \/ \E c \in Suspended : ExchangeFailed(c) /\ UNCHANGED ledgerVars
    \/ \E t \in pageTimers : ValidateTimer(t) /\ UNCHANGED ledgerVars
    \/ \E c \in Suspended, fresh \in FreshUsers :
            RefreshOk(c, fresh) /\ UNCHANGED ledgerVars
    \/ \E c \in Suspended : RefreshFailed(c) /\ UNCHANGED ledgerVars
    \/ Logout /\ UNCHANGED ledgerVars
    \/ \E c \in Suspended : LogoutSignedOut(c) /\ UNCHANGED ledgerVars
    \/ \E c \in Suspended : LogoutFetched(c) /\ UNCHANGED ledgerVars
    \/ \E c \in Suspended : LogoutCatch(c) /\ UNCHANGED ledgerVars
    \/ EnableAuth /\ UNCHANGED ledgerVars
    \/ \E t \in pageTimers : ReloadTimer(t) /\ UNCHANGED ledgerVars
    \/ UserReload /\ UNCHANGED ledgerVars
    \/ SignIn /\ UNCHANGED ledgerVars
    \/ \E isPremiumCoupon \in BOOLEAN : SignUpStart(isPremiumCoupon) /\ UNCHANGED ledgerVars
    \/ \E c \in Suspended : SignUpCreated(c) /\ UNCHANGED ledgerVars
    \/ \E c \in Suspended : SignUpFailed(c) /\ UNCHANGED ledgerVars
    \/ Elapse /\ UNCHANGED ledgerVars

\* the session, the listeners and the user data
Reconciler ==
    \/ Session
    \/ \E callback \in Callbacks :
            OnAuthStateChange(callback) /\ UNCHANGED ledgerVars
    \/ \E callback \in Callbacks : Unlisten(callback) /\ UNCHANGED ledgerVars
    \/ \E userData \in ProfileEdits :
            UpdateUserData(userData) /\ UNCHANGED ledgerVars
    \/ RefreshFromDatabase /\ UNCHANGED ledgerVars
    \/ \E c \in Suspended, userData \in DatabaseUsers :
            DatabaseOk(c, userData) /\ UNCHANGED ledgerVars
    \/ \E c \in Suspended : DatabaseFailed(c) /\ UNCHANGED ledgerVars

ReconcilerSpec == Init /\ [][Reconciler]_allVars

\* the session of a returning visitor
ReturningSpec == ReturningInit /\ [][Session]_allVars

-----------------------------------------------------------------------------
(* The ledger *)

\* the ledger serving registrations with a coupon among `coupons`
Ledger(coupons) ==
    \/ Tick /\ NoValidation /\ UNCHANGED clientVars
    \/ \E t \in timers : TimerFire(t) /\ NoValidation /\ UNCHANGED clientVars
    \/ \E body \in RegisterBodiesWith(coupons) : RegisterStart(body) /\ NoValidation /\ UNCHANGED clientVars
    \/ \E c \in Waiting : RegisterLookup(c) /\ NoValidation /\ UNCHANGED clientVars
    \/ \E c \in Waiting : RegisterStore(c) /\ UNCHANGED clientVars
    \/ \E c \in Waiting : RegisterFail(c) /\ NoValidation /\ UNCHANGED clientVars
    \/ \E body \in VerifyBodies : VerifyStart(body) /\ NoValidation /\ UNCHANGED clientVars
    \/ \E c \in Waiting : VerifyCreated(c) /\ NoValidation /\ UNCHANGED clientVars
    \/ \E c \in Waiting : VerifyCatch(c) /\ NoValidation /\ UNCHANGED clientVars
    \/ \E body \in ResendBodies : resendOTP(body) /\ NoValidation /\ UNCHANGED clientVars

\* registrations without a coupon: the promo lookup is skipped
Next == Ledger({NoCoupon})

Spec == Init /\ [][Next]_vars

\* registrations with and without a coupon, and the confirmations that turn
\* them into accounts
Issuance ==
    \/ \E body \in RegisterBodiesWith(Coupons) : RegisterStart(body) /\ NoValidation /\ UNCHANGED clientVars
    \/ \E c \in Waiting : RegisterLookup(c) /\ NoValidation /\ UNCHANGED clientVars
    \/ \E c \in Waiting : RegisterStore(c) /\ UNCHANGED clientVars
    \/ \E c \in Waiting : RegisterFail(c) /\ NoValidation /\ UNCHANGED clientVars
    \/ \E body \in VerifyBodies : VerifyStart(body) /\ NoValidation /\ UNCHANGED clientVars
    \/ \E c \in Waiting : VerifyCreated(c) /\ NoValidation /\ UNCHANGED clientVars
    \/ \E c \in Waiting : VerifyCatch(c) /\ NoValidation /\ UNCHANGED clientVars

PromoSpec == Init /\ [][Issuance]_vars

-----------------------------------------------------------------------------
(* Responses, by the error they stand for *)

Sent(r) == r.op # "none"

IsNotFoundError(r) ==
    /\ Sent(r)
    /\ r.status = 400
    /\ r.body.message = "No verification pending for this email"

IsExpiredError(r) ==
    /\ Sent(r)
    /\ r.status = 400
    /\ r.body.message = "OTP has expired. Please register again."

IsRateLimitedError(r) ==
    /\ Sent(r)
    /\ r.status = 400
    /\ r.body.message = "Too many failed attempts. Please register again."

IsMismatchError(r) ==
    /\ Sent(r)
    /\ r.status = 400
    /\ r.body.message = "Invalid OTP code"

IsConflictError(r) ==
    /\ Sent(r)
    /\ r.status = 400
    /\ r.body.message = "Email already registered"

IsValidationError(r) ==
    /\ Sent(r)
    /\ r.status = 400
    /\ r.body.message \in {"Invalid email address", "Password must be at least 8 characters"}

IsGenericFailure(r) ==
    /\ Sent(r)
    /\ r.status = 500

IsSuccess(r) ==
    /\ Sent(r)
    /\ r.status \in {200, 201}

\* the keys requests can name
Keys == { toLowerCase(e) : e \in Emails }

\* a request that names an email and carries a code
Submission(body) == Truthy(body.email) /\ Truthy(body.otp)

\* the verifyOTP invocations waiting on storage.createUser for key k
CreatesInFlight(k) ==
    LET S == { c \in Waiting : c.pc = "createUser" /\ toLowerCase(c.body.email) = k }
    IN  BagCardinality([c \in S |-> calls[c]])

-----------------------------------------------------------------------------
(* Properties *)

\* C1: a confirmation with the right code that goes through creates the
\* account and deletes the pending record, and every later confirmation for
\* that email with the same code fails with NotFoundError.
C1_ConfirmSucceedsExactlyOnce ==
    [][ /\ \A c \in Waiting :
            VerifyCreated(c) =>
                /\ MapHas(users', c.userData.email)
                /\ ~MapHas(otpStore', toLowerCase(c.body.email))
        /\ \A body \in VerifyBodies :
            ( /\ Submission(body)
              /\ MapHas(confirmed, toLowerCase(body.email))
              /\ confirmed[toLowerCase(body.email)] = body.otp
              /\ VerifyStart(body) )
            => IsNotFoundError(resp')
      ]_vars

\* C2: the check-create-delete sequence of a confirmation is one atomic unit
\* per key: no two confirmations for one email are inside it at once, so
\* account creation is invoked once for a pending registration.
C2_ConfirmIsAtomicPerKey ==
    \A k \in Keys : CreatesInFlight(k) <= 1

\* C3: every pending record has 0 <= attempts <= 5, and attempts is the
\* number of mismatched submissions compared against the record's current
\* code, which therefore never exceeds 5.
C3_AttemptsWithinCap ==
    \A k \in DOMAIN otpStore :
        /\ otpStore[k].attempts \in 0..MAX_ATTEMPTS
        /\ meta[k].mismatches = otpStore[k].attempts
        /\ meta[k].mismatches <= MAX_ATTEMPTS

C3_Witness ==
    \E k \in DOMAIN otpStore :
        /\ otpStore[k].attempts = MAX_ATTEMPTS
        /\ meta[k].mismatches = MAX_ATTEMPTS
        /\ IsMismatchError(resp)

\* C4: after five mismatched submissions against a code (no reissue since,
\* the code not expired), the next submission fails with RateLimitedError
\* whatever code it carries, the right one included; it creates no account,
\* calls no account creation and deletes the pending record.
C4_SixthSubmissionRateLimited ==
    [][ \A body \in VerifyBodies :
            LET key == toLowerCase(body.email) IN
            ( /\ Submission(body)
              /\ MapHas(otpStore, key)
              /\ now <= otpStore[key].expires
              /\ meta[key].mismatches = MAX_ATTEMPTS
              /\ VerifyStart(body) )
            => /\ IsRateLimitedError(resp')
               /\ ~MapHas(otpStore', key)
               /\ users' = users
               /\ calls' = calls
      ]_vars

C4_Witness ==
    /\ IsRateLimitedError(resp)
    /\ DOMAIN otpStore = {}
    /\ DOMAIN users = {}
    /\ calls = EmptyBag

\* C5: a submission fails with ExpiredError exactly when a pending record
\* exists for its email and now > expires, whatever code it carries; the
\* record is then deleted, no account is created and no account creation is
\* called.  A reissue for an email with no pending record fails with
\* NotFoundError and stores nothing.
C5_ExpiredExactlyAfterExpiry ==
    [][ /\ \A body \in VerifyBodies :
            LET key == toLowerCase(body.email)
                Expired == /\ Submission(body)
                           /\ MapHas(otpStore, key)
                           /\ now > otpStore[key].expires
            IN  /\ (Expired /\ VerifyStart(body)) =>
                      /\ IsExpiredError(resp')
                      /\ ~MapHas(otpStore', key)
                      /\ users' = users
                      /\ calls' = calls
                /\ (IsExpiredError(resp') /\ VerifyStart(body)) => Expired
        /\ \A body \in ResendBodies :
            ( /\ Truthy(body.email)
              /\ ~MapHas(otpStore, toLowerCase(body.email))
              /\ resendOTP(body) )
            => /\ IsNotFoundError(resp')
               /\ otpStore' = otpStore
      ]_vars

C5_Witness ==
    /\ IsExpiredError(resp)
    /\ DOMAIN otpStore = {}
    /\ DOMAIN users = {}
    /\ timers # {}

\* C6: a mismatched submission on an unexpired record with attempts < 5
\* adds one to attempts and leaves the rest of the record as it is, creates
\* no account, and reports attemptsLeft = 5 - attempts with the new count:
\* the n-th mismatch against a code reports 5 - n.
C6_MismatchCountsOneAttempt ==
    [][ \A body \in VerifyBodies :
            LET key == toLowerCase(body.email) IN
            ( /\ Submission(body)
              /\ MapHas(otpStore, key)
              /\ now <= otpStore[key].expires
              /\ otpStore[key].attempts < MAX_ATTEMPTS
              /\ otpStore[key].otp # body.otp
              /\ VerifyStart(body) )
            => /\ MapHas(otpStore', key)
               /\ otpStore'[key].attempts = otpStore[key].attempts + 1
               /\ otpStore'[key].otp = otpStore[key].otp
               /\ otpStore'[key].expires = otpStore[key].expires
               /\ otpStore'[key].userData = otpStore[key].userData
               /\ users' = users
               /\ calls' = calls
               /\ IsMismatchError(resp')
               /\ resp'.body.attemptsLeft = MAX_ATTEMPTS - otpStore'[key].attempts
               /\ resp'.body.attemptsLeft = MAX_ATTEMPTS - meta'[key].mismatches
      ]_vars

C6_Witness ==
    /\ IsMismatchError(resp)
    /\ resp.body.attemptsLeft = 0
    /\ \E k \in DOMAIN otpStore : meta[k].mismatches = MAX_ATTEMPTS

\* C7 as claimed: a reissue on a pending record replaces the code, sets
\* expires to now + 5 minutes, resets attempts and keeps the payload, and the
\* code issued before no longer validates; with no pending record it fails
\* with NotFoundError and changes nothing.
C7_OldCodeNeverValidates ==
    [][ \A body \in ResendBodies :
            LET key == toLowerCase(body.email) IN
            (Truthy(body.email) /\ resp'.op = "resendOTP" /\ resendOTP(body)) =>
                IF MapHas(otpStore, key)
                THEN /\ MapHas(otpStore', key)
                     /\ otpStore'[key].expires = now + OTP_TTL_MS
                     /\ otpStore'[key].attempts = 0
                     /\ otpStore'[key].userData = otpStore[key].userData
                     /\ OtpMismatch(otpStore'[key], otpStore[key].otp)
                ELSE /\ IsNotFoundError(resp')
                     /\ UNCHANGED <<otpStore, timers, users, calls>>
      ]_vars

\* C7 as amended: a reissue on a pending record replaces the code by a newly
\* generated one, which may be the code issued before, sets expires to
\* now + 5 minutes, resets attempts and keeps the payload; the code issued
\* before is a mismatch afterwards exactly when the new code differs from it.
\* With no pending record it fails with NotFoundError and changes nothing.
C7_ReissueReplacesRecord ==
    [][ \A body \in ResendBodies :
            LET key == toLowerCase(body.email) IN
            (Truthy(body.email) /\ resp'.op = "resendOTP" /\ resendOTP(body)) =>
                IF MapHas(otpStore, key)
                THEN /\ IsSuccess(resp')
                     /\ MapHas(otpStore', key)
                     /\ otpStore'[key].otp \in generateOTP
                     /\ otpStore'[key].expires = now + OTP_TTL_MS
                     /\ otpStore'[key].attempts = 0
                     /\ otpStore'[key].userData = otpStore[key].userData
                     /\ OtpMismatch(otpStore'[key], otpStore[key].otp)
                            <=> otpStore'[key].otp # otpStore[key].otp
                     /\ UNCHANGED <<timers, users, calls>>
                ELSE /\ IsNotFoundError(resp')
                     /\ UNCHANGED <<otpStore, timers, users, calls>>
      ]_vars

C7_Witness ==
    /\ resp.op = "resendOTP"
    /\ IsSuccess(resp)
    /\ now > 0
    /\ \E k \in DOMAIN otpStore :
        /\ otpStore[k].expires = now + OTP_TTL_MS
        /\ otpStore[k].attempts = 0
        /\ meta[k].createdAt < now

\* C8: the scheduled eviction removes a pending record 10 minutes after that
\* record's creation and never earlier, and a reissue does not move it.
C8_EvictionTenMinutesAfterCreation ==
    [][ /\ \A t \in timers :
            (TimerFire(t) /\ MapHas(otpStore, t.key))
            => now >= meta[t.key].createdAt + CLEANUP_DELAY_MS
        /\ \A body \in ResendBodies :
            (resp'.op = "resendOTP" /\ resendOTP(body)) => timers' = timers
      ]_vars

\* C9: when account creation fails in a confirmation, the caller gets the
\* generic failure and the pending record, the accounts and the eviction
\* timers stay as they are; a submission with the record's code, before
\* expiry and within the attempts, goes to account creation again with the
\* record's payload.
C9_CreateFailureKeepsRecord ==
    [][ /\ \A c \in Waiting :
            VerifyCatch(c) =>
                /\ IsGenericFailure(resp')
                /\ UNCHANGED <<otpStore, users, timers>>
        /\ \A body \in VerifyBodies :
            LET key == toLowerCase(body.email) IN
            ( /\ Submission(body)
              /\ MapHas(otpStore, key)
              /\ now <= otpStore[key].expires
              /\ otpStore[key].attempts < MAX_ATTEMPTS
              /\ otpStore[key].otp = body.otp
              /\ VerifyStart(body) )
            => /\ ~Sent(resp')
               /\ otpStore' = otpStore
               /\ \E c \in BagToSet(calls') :
                    /\ c.pc = "createUser"
                    /\ c.userData = otpStore[key].userData
                    /\ CopiesIn(c, calls') = CopiesIn(c, calls) + 1
      ]_vars

C9_Witness ==
    /\ resp.op = "verifyOTP"
    /\ IsGenericFailure(resp)
    /\ \E k \in DOMAIN otpStore :
        /\ ~MapHas(users, k)
        /\ now <= otpStore[k].expires
        /\ otpStore[k].attempts < MAX_ATTEMPTS

\* C10: a registration whose account lookup finds an account fails with
\* ConflictError, and one whose body fails validation fails with
\* ValidationError; neither stores or changes a pending record nor arms an
\* eviction timer.
C10_ConflictStoresNothing ==
    [][ /\ \A c \in Waiting :
            ( /\ c.pc = "getUserByEmail"
              /\ MapHas(users, toLowerCase(c.body.email))
              /\ RegisterLookup(c) )
            => /\ IsConflictError(resp')
               /\ UNCHANGED <<otpStore, timers, users>>
               /\ calls' = calls (-) SetToBag({c})
        /\ \A body \in RegisterBodies :
            ( /\ registerSchemaError(body.email, body.password) # ""
              /\ RegisterStart(body) )
            => /\ IsValidationError(resp')
               /\ UNCHANGED <<otpStore, timers, users, calls>>
      ]_vars

C10_Witness ==
    /\ IsConflictError(resp)
    /\ DOMAIN users # {}

\* the default tier of registerWithOTP
FreeTier ==
    [tier |-> "free", totalPages |-> 10, maxShotsPerScene |-> 5,
     canGenerateStoryboards |-> FALSE]

\* the tier a valid promo code upgrades to
ProTier ==
    [tier |-> "pro", totalPages |-> -1, maxShotsPerScene |-> -1,
     canGenerateStoryboards |-> TRUE]

\* the tier fields of a payload
TierOf(userData) ==
    [f \in {"tier", "totalPages", "maxShotsPerScene", "canGenerateStoryboards"} |->
        userData[f]]

\* C11: a registration that reaches the promo lookup always stores a pending
\* record and answers 200, whatever the lookup does; the payload carries the
\* pro tier when the lookup answered isValid, and the free tier (free, 10
\* pages, 5 shots per scene, no storyboards) when it answered invalid, threw
\* or was skipped.
C11_InvalidPromoKeepsFreeTier ==
    [][ \A c \in Waiting :
            (c.pc = "prepare" /\ RegisterStore(c)) =>
                LET key == toLowerCase(c.body.email) IN
                /\ IsSuccess(resp')
                /\ MapHas(otpStore', key)
                /\ otpStore'[key].userData.couponCode = c.body.couponCode
                /\ validation' \in PromoOutcomes(c.body.couponCode)
                /\ TierOf(otpStore'[key].userData) =
                        IF validation' = "valid" THEN ProTier ELSE FreeTier
      ]_vars

C11_Witness ==
    /\ validation \in {"invalid", "throws"}
    /\ IsSuccess(resp)
    /\ \E k \in DOMAIN otpStore :
        /\ Truthy(otpStore[k].userData.couponCode)
        /\ TierOf(otpStore[k].userData) = FreeTier

\* the values a response body carries that come from requests or records
Carried(r) ==
    LET b == r.body IN
    (IF "email" \in DOMAIN b THEN {b.email} ELSE {})
    \cup (IF "otp" \in DOMAIN b THEN {b.otp} ELSE {})
    \cup (IF "token" \in DOMAIN b THEN {b.token} ELSE {})
    \cup (IF "user" \in DOMAIN b
          THEN {b.user.email, b.user.id, b.user.couponCode}
          ELSE {})

\* C12: no response of registerWithOTP, resendOTP or verifyOTP, success or
\* failure, carries the code stored for any email when it is sent.
C12_ResponsesNeverCarryCode ==
    Sent(resp) =>
        \A k \in DOMAIN otpStore : otpStore[k].otp \notin Carried(resp)

C12_Witness ==
    /\ resp.op \in {"registerWithOTP", "resendOTP"}
    /\ IsSuccess(resp)
    /\ \E k \in DOMAIN otpStore : otpStore[k].otp \in generateOTP

-----------------------------------------------------------------------------
(* Properties of the reconciler *)

\* the pair notifyListeners gives to listeners
Emission(state, u) == [state |-> state, user |-> u]

\* the requests among `calls_` that go to url
RequestsTo(calls_, url) == { i \in DOMAIN calls_ : calls_[i].url = url }

\* C13: whenever the logout lock is persisted and unexpired, the state is
\* disabled and the user is absent, also when a backend exchange that began
\* before logout() ends after it.
C13_LockImpliesDisabled ==
    LockActive(localStorage, now) => (authState = "disabled" /\ IsNull(user))

\* C14: the first synchronous stretch of logout() sets the state to
\* disabled, clears the user and persists the lock (the flag and the current
\* time), all before the first await (signOut is the only call made, and the
\* only thing the step leaves waiting); listeners have been told (disabled,
\* no user) by the end of that stretch, in it unless that was the last
\* emission already.
C14_LogoutDisablesSynchronously ==
    [][ Logout =>
            /\ authState' = "disabled"
            /\ IsNull(user')
            /\ isLoggedOut'
            /\ getItem(localStorage', "auth_disabled") = Some(TrueText)
            /\ getItem(localStorage', "logout_timestamp") = Some(toString(now))
            /\ LockActive(localStorage', now')
            /\ lastNotifiedState' = Some(Emission("disabled", Null))
            /\ IF lastNotifiedState = Some(Emission("disabled", Null))
               THEN emitted' = <<>>
               ELSE emitted' = <<Emission("disabled", Null)>>
            /\ sent' = <<SignOutCall>>
            /\ tasks' = tasks (+) SetToBag({[pc |-> "logout.signOut"]})
            /\ pageTimers' = pageTimers
      ]_allVars

C14_Witness ==
    /\ [pc |-> "logout.signOut"] \in Suspended
    /\ sent = <<SignOutCall>>
    /\ emitted = <<Emission("disabled", Null)>>
    /\ authState = "disabled"
    /\ LockActive(localStorage, now)
    /\ logoutAt = Some(now)

\* the callback took its blocked branch for a signed-in user: signOut is the
\* only call it made, and no exchange was begun
Rejected ==
    /\ sent' = <<SignOutCall>>
    /\ tasks' = tasks (+) SetToBag({[pc |-> "forceSignOut"]})
    /\ authState' = authState
    /\ user' = user

\* C15: a sign-in notification handled while the state is disabled or the
\* logout lock is active is rejected: signOut is called on the IdP, no
\* exchange request is sent, and when the forced sign-out settles the state
\* is disabled and the user absent.  A sign-in notification handled one
\* second after logout() is rejected likewise.
C15_SignInRejectedAfterLogout ==
    [][ /\ ( /\ inbox # <<>>
             /\ ~IsNull(Head(inbox).user)
             /\ (authState = "disabled" \/ LockActive(localStorage, now))
             /\ Deliver )
           => Rejected
        /\ \A c \in Suspended :
            (c.pc = "forceSignOut" /\ ForceSignOutDone(c))
            => (authState' = "disabled" /\ IsNull(user'))
        /\ ( /\ inbox # <<>>
             /\ ~IsNull(Head(inbox).user)
             /\ ~IsNull(logoutAt)
             /\ now = Val(logoutAt) + SECOND_MS
             /\ Deliver )
           => Rejected
      ]_allVars

\* C16: from logout() until 120 seconds have passed or enableAuth() is
\* called, the lock is persisted and active: logout's own cleanup and the
\* page loads in between leave it in place.
C16_LockOutlivesLogout ==
    (~IsNull(logoutAt) /\ now - Val(logoutAt) < LOCK_TTL_MS)
        => LockActive(localStorage, now)

\* the step is a page load
PageLoad ==
    \/ UserReload
    \/ \E t \in pageTimers : ReloadTimer(t)

\* C17: a disabled AuthManager stays disabled in every step but
\* enableAuth(), which takes it to loading and nowhere else.  (A page load
\* makes a new AuthManager and is not counted.)
C17_DisabledUntilEnableAuth ==
    [][ /\ (authState = "disabled" /\ authState' # "disabled")
            => (PageLoad \/ (EnableAuth /\ authState' = "loading"))
        /\ EnableAuth => authState' = "loading"
      ]_allVars

\* C18: when the exchange of an accepted sign-in notification answers OK,
\* the state becomes authenticated, the user is built from the answer alone
\* and the pending coupon is cleared; when it answers an error status or
\* getIdToken or the fetch rejects, the state becomes unauthenticated, the
\* user absent and the pending coupon cleared.  Either way the callback ends
\* there and throws nothing.
C18_ExchangeSettlesSession ==
    [][ /\ \A c \in Suspended, userData \in BackendUsers :
            (c.pc = "fetch" /\ ExchangeOk(c, userData)) =>
                /\ authState' = "authenticated"
                /\ user' = Some(SessionUser(userData))
                /\ Val(user').id = userData.id
                /\ Val(user').email = userData.email
                /\ Val(user').displayName \in
                        { d[1] : d \in {userData.displayName} \ {Null} }
                        \cup {LocalPart(userData.email), UserText}
                /\ Val(user').displayName # Val(c.firebaseUser.displayName)
                /\ TierOf(Val(user')) = TierOf(userData)
                /\ IsNull(pendingCouponCode')
                /\ tasks' = tasks (-) SetToBag({c})
        /\ \A c \in Suspended :
            (c.pc \in {"getIdToken", "fetch"} /\ ExchangeFailed(c)) =>
                /\ authState' = "unauthenticated"
                /\ IsNull(user')
                /\ IsNull(pendingCouponCode')
                /\ tasks' = tasks (-) SetToBag({c})
      ]_allVars

C18_Witness ==
    /\ authState = "authenticated"
    /\ ~IsNull(user)
    /\ emitted = <<Emission("authenticated", user)>>
    /\ Val(user).displayName = <<"a">>
    /\ IsNull(pendingCouponCode)
    /\ [kind |-> "validateAndUpdateTier", at |-> now + TIER_VALIDATION_DELAY_MS]
            \in pageTimers

\* C19: the exchange request carries the pending coupon code when one is
\* pending, and no coupon code only when none is.
C19_ExchangeCarriesPendingCoupon ==
    [][ \A c \in Suspended :
            (c.pc = "getIdToken" /\ IdTokenResolved(c)) =>
                \E i \in RequestsTo(sent', "/api/auth/firebase-sync") :
                    IF IsNull(pendingCouponCode)
                    THEN "couponCode" \notin DOMAIN sent'[i].body
                    ELSE /\ "couponCode" \in DOMAIN sent'[i].body
                         /\ sent'[i].body.couponCode = Val(pendingCouponCode)
      ]_allVars

\* C20: when the refresh answers OK and any tier-affecting field of the
\* answer differs from the cached user, the cached tier fields become the
\* answer's, the identity fields stay, and listeners are told exactly once.
C20_PullOverwritesTierFields ==
    [][ \A c \in Suspended, fresh \in FreshUsers :
            ( /\ c.pc = "refreshSession"
              /\ ~IsNull(user)
              /\ TierOf(Val(user)) # TierOf(fresh)
              /\ RefreshOk(c, fresh) )
            => /\ ~IsNull(user')
               /\ TierOf(Val(user')) = TierOf(fresh)
               /\ \A f \in {"id", "email", "displayName", "provider"} :
                    Val(user')[f] = Val(user)[f]
               /\ Len(emitted') = 1
      ]_allVars

\* C21: enableAuth() removes both keys of the lock, sets the state to loading
\* and subscribes anew, the new subscription being told the IdP's current
\* user; and whatever calls were made, at most one subscription is active.
C21_EnableAuthResubscribesOnce ==
    [][ /\ EnableAuth =>
            /\ ~MapHas(localStorage', "auth_disabled")
            /\ ~MapHas(localStorage', "logout_timestamp")
            /\ authState' = "loading"
            /\ ~IsNull(unsubscribeAuth')
            /\ observers' = {Val(unsubscribeAuth')}
            /\ inbox' = Append(inbox, [sub |-> Val(unsubscribeAuth'), user |-> auth])
        /\ Cardinality(observers) <= 1
        /\ Cardinality(observers') <= 1
      ]_allVars

C21_Witness ==
    /\ ops >= 2
    /\ emitted = <<Emission("loading", Null)>>
    /\ Cardinality(observers) = 1
    /\ ~MapHas(localStorage, "auth_disabled")

\* C22: whenever a step leaves the AuthManager authenticated with a tier,
\* quota or capability field of the cached user that it did not have before
\* the step, the step took that value from an answer of the backend: of the
\* exchange, of the refresh of the session, or of the current user.
C22_TierFieldsComeFromBackend ==
    [][ (authState' = "authenticated" /\ ~IsNull(user')) =>
            \A f \in DOMAIN FreeTier :
                (IsNull(user) \/ Val(user')[f] # Val(user)[f]) =>
                    \/ \E c \in Suspended, userData \in BackendUsers :
                            /\ userData[f] = Val(user')[f]
                            /\ ExchangeOk(c, userData)
                    \/ \E c \in Suspended, fresh \in FreshUsers :
                            /\ fresh[f] = Val(user')[f]
                            /\ RefreshOk(c, fresh)
                    \/ \E c \in Suspended, userData \in DatabaseUsers :
                            /\ userData[f] = Val(user')[f]
                            /\ DatabaseOk(c, userData)
      ]_allVars

\* C23: in every reachable state, an authenticated AuthManager has a user.
C23_AuthenticatedHasUser ==
    authState = "authenticated" => ~IsNull(user)

C23_Witness ==
    /\ authState = "authenticated"
    /\ ~IsNull(user)
    /\ isLoggedOut = FALSE
    /\ ~MapHas(localStorage, "auth_disabled")

C25_EmissionsFollowChanges ==
    [][ /\ (notifyListeners(Here).emitted = <<>>) <=>
                (lastNotifiedState = Some(Emission(authState, user)))
        /\ \A i \in DOMAIN emitted' :
                Some(emitted'[i]) #
                    (IF i > 1 THEN Some(emitted'[i - 1])
                     ELSE IF PageLoad THEN Null
                     ELSE lastNotifiedState)
        /\ emitted' # <<>> =>
                lastNotifiedState' = Some(emitted'[Len(emitted')])
        /\ (~PageLoad /\ <<authState', user'>> # <<authState, user>>) =>
                /\ emitted' # <<>>
                /\ emitted'[Len(emitted')] = Emission(authState', user')
      ]_allVars

C25_Witness ==
    /\ listeners # <<>>
    /\ tasks = SetToBag({[pc |-> "logout.signOut"]})
    /\ sent = <<SignOutCall>>
    /\ emitted = <<>>
    /\ lastNotifiedState = Some(Emission("disabled", Null))

\* C26: when the refresh of the session answers an error status or its
\* fetch rejects, the state, the user and the last emission stay as they
\* are, nothing is emitted, and validateAndUpdateTier returns without
\* throwing.
C26_FailedPullChangesNothing ==
    [][ \A c \in Suspended :
            (c.pc = "refreshSession" /\ RefreshFailed(c)) =>
                /\ authState' = authState
                /\ user' = user
                /\ lastNotifiedState' = lastNotifiedState
                /\ emitted' = <<>>
                /\ tasks' = tasks (-) SetToBag({c})
      ]_allVars

C26_Witness ==
    /\ authState = "authenticated"
    /\ ~IsNull(user)
    /\ now >= TIER_VALIDATION_DELAY_MS
    /\ pageTimers = {}
    /\ tasks = EmptyBag
    /\ emitted = <<>>
    /\ sent = <<>>

\* C27: the step of a logout() that clears the local data and sets the
\* reload timer comes after that logout's call of the backend logout
\* endpoint, which comes after its IdP sign-out; it removes both keys of the
\* lock and sets the reload.
C27_LogoutCleansUpInOrder ==
    [][ \A c \in Suspended :
            /\ (c.pc = "logout.signOut" /\ LogoutSignedOut(c)) =>
                    RequestsTo(sent', "/api/auth/logout") # {}
            /\ (c.pc \in {"logout.signOut", "logout.fetch"}
                    /\ (LogoutFetched(c) \/ LogoutCatch(c))) =>
                    /\ c.pc = "logout.fetch"
                    /\ ~MapHas(localStorage', "auth_disabled")
                    /\ ~MapHas(localStorage', "logout_timestamp")
                    /\ [kind |-> "reload", at |-> now + RELOAD_DELAY_MS] \in pageTimers'
      ]_allVars

\* C28: onAuthStateChange(callback) registers the callback and calls it once,
\* within the call, with the state and the user the AuthManager has at that
\* moment; it changes neither.
C28_SubscriberGetsCurrentState ==
    [][ \A callback \in Callbacks :
            OnAuthStateChange(callback) =>
                /\ replayed' = <<[to |-> callback, state |-> authState, user |-> user]>>
                /\ listeners' = Append(listeners, callback)
                /\ <<authState', user'>> = <<authState, user>>
                /\ emitted' = <<>>
      ]_allVars

C28_Witness ==
    /\ authState = "authenticated"
    /\ ~IsNull(user)
    /\ listeners # <<>>
    /\ replayed = <<[to |-> listeners[Len(listeners)], state |-> "authenticated",
                     user |-> user]>>

\* C29: a page load that finds an unexpired lock ends disabled with no user
\* and no subscription, the lock still stored; one that finds an expired lock
\* removes it and subscribes; one that finds none subscribes; in the last two
\* cases the state is loading, and a loading AuthManager leaves that state
\* only in the callback run for a notification (or in what the run awaits)
\* or in logout().
C29_LockReadAtStart ==
    [][ LET LockStored == MapHas(localStorage, "auth_disabled")
            LockUnexpired ==
                /\ LockStored
                /\ MapHas(localStorage, "logout_timestamp")
                /\ now - parseInt(localStorage["logout_timestamp"])
                       < LOCK_TTL_MS
        IN
        /\ (PageLoad /\ LockUnexpired) =>
                /\ authState' = "disabled"
                /\ IsNull(user')
                /\ observers' = {}
                /\ IsNull(unsubscribeAuth')
                /\ inbox' = <<>>
                /\ localStorage' = localStorage
        /\ (PageLoad /\ LockStored /\ ~LockUnexpired) =>
                /\ ~MapHas(localStorage', "auth_disabled")
                /\ ~MapHas(localStorage', "logout_timestamp")
                /\ authState' = "loading"
                /\ Cardinality(observers') = 1
                /\ inbox' = <<[sub |-> Val(unsubscribeAuth'), user |-> auth]>>
        /\ (PageLoad /\ ~LockStored) =>
                /\ localStorage' = localStorage
                /\ authState' = "loading"
                /\ Cardinality(observers') = 1
                /\ inbox' = <<[sub |-> Val(unsubscribeAuth'), user |-> auth]>>
        /\ (~PageLoad /\ authState = "loading" /\ authState' # "loading") =>
                \/ Deliver
                \/ Logout
                \/ \E c \in Suspended :
                        /\ c.pc \in {"forceSignOut", "getIdToken", "fetch"}
                        /\ tasks' = tasks (-) SetToBag({c})
      ]_allVars

C29_Witness ==
    /\ authState = "disabled"
    /\ MapHas(localStorage, "auth_disabled")
    /\ now - parseInt(localStorage["logout_timestamp"]) = LOCK_TTL_MS - 1
    /\ observers = {}
    /\ tasks = EmptyBag
    /\ emitted = <<Emission("disabled", Null)>>

-----------------------------------------------------------------------------
(* Properties of the code generator *)

\* C30: every code generateOTP can return, and so every code stored, is the
\* decimal text of an integer of [100000, 999999], and every integer of that
\* interval, both ends included, is one it can return.
C30_CodesCoverInterval ==
    /\ \A otp \in generateOTP \cup { otpStore[k].otp : k \in DOMAIN otpStore } :
            OTP_MIN <= parseInt(otp) /\ parseInt(otp) <= OTP_MAX
    /\ \A n \in SampleInts :
            (OTP_MIN <= n /\ n <= OTP_MAX) => toString(n) \in generateOTP

-----------------------------------------------------------------------------
(* Properties of interleaved requests *)

\* C31: no pending record exists for an email once an account exists for
\* it, whatever the interleaving of registerWithOTP and verifyOTP on that
\* email.
C31_NoPendingOnceRegistered ==
    \A k \in DOMAIN otpStore : ~MapHas(users, k)

\* C32: once the IdP has signed the user out and the callback has run for
\* every notification dispatched (the sign-out notification the last of
\* them), leaving the AuthManager unauthenticated or disabled, no step makes
\* it authenticated: not the completion of an exchange that was in flight
\* when the sign-out notification was handled.
C32_StaleExchangeIgnored ==
    [][ ( /\ IsNull(auth)
          /\ inbox = <<>>
          /\ ~IsNull(unsubscribeAuth)
          /\ Val(unsubscribeAuth) \in observers
          /\ authState \in {"unauthenticated", "disabled"} )
        => authState' # "authenticated"
      ]_allVars

\* C33: with the user absent (cleared by logout() or by the callback run
\* for a sign-out notification), the timer of the tier validation fires
\* without calling the backend, and the answer of a refresh of the session
\* begun earlier is dropped: either step leaves the user absent, the state
\* and the last emission as they are, and emits nothing.
C33_PullAfterClearIsInert ==
    [][ IsNull(user) =>
            /\ \A t \in pageTimers :
                    ValidateTimer(t) =>
                        /\ IsNull(user')
                        /\ authState' = authState
                        /\ lastNotifiedState' = lastNotifiedState
                        /\ emitted' = <<>>
                        /\ sent' = <<>>
                        /\ tasks' = tasks
            /\ \A c \in Suspended :
                    ( /\ c.pc = "refreshSession"
                      /\ \/ \E fresh \in FreshUsers : RefreshOk(c, fresh)
                         \/ RefreshFailed(c) )
                    => /\ IsNull(user')
                       /\ authState' = authState
                       /\ lastNotifiedState' = lastNotifiedState
                       /\ emitted' = <<>>
                       /\ sent' = <<>>
      ]_allVars

\* logout() was called at time 0, the timer of the tier validation set at
\* the sign-in of time 0 has fired since, and no refresh is in flight
C33_Witness ==
    /\ logoutAt = Some(0)
    /\ now = TIER_VALIDATION_DELAY_MS
    /\ pageTimers = {}
    /\ isLoggedOut
    /\ authState = "disabled"
    /\ IsNull(user)
    /\ lastNotifiedState = Some(Emission("disabled", Null))
    /\ tasks = SetToBag({[pc |-> "logout.signOut"]})
    /\ sent = <<>>

====
